---------------------------- MODULE Spec2Model ----------------------------
(***************************************************************************)
(* A model of tetris_rs (src/src/main.rs): the falling piece, its          *)
(* collision test and resting ("shadow") position, the grid's row          *)
(* clearing, and the per-tick update with its scoring.                     *)
(*                                                                         *)
(* Coordinates are the code's (row, column) pairs. The code stores them    *)
(* as f32, but every value it ever holds is a whole number, so they are    *)
(* integers here. The grid is a sequence of rows, each a sequence of       *)
(* cells, like the code's Vec<Vec<Tetrimonos>>; the code's index i is      *)
(* the sequence index i + 1.                                               *)
(***************************************************************************)
EXTENDS Integers, Sequences, FiniteSets, TLC

(***************************************************************************)
(* Bounds. GRID_SIZE is (20, 10) in the code; the board is scaled down so  *)
(* that stacks reach the spawn rows and rows fill within a few pieces.     *)
(* The width stays even, as in the code, so that the spawn column          *)
(* GRID_SIZE.1 / 2 is a whole number.                                      *)
(***************************************************************************)
GRID_ROWS == 5
HALF_COLS == 2
GRID_COLS == 2 * HALF_COLS

\* Pieces locked before the session is cut off, with every kind drawn.
MaxLocks == 1
\* Pieces locked before the session is cut off in the long runs, which draw
\* only the kinds numbered 0..MaxDrawLong.
MaxLocksLong == 11
MaxDrawLong == 0
\* The grids handed to clean_rows on its own are made of full rows, blank rows
\* and rows with at most MaxRowBlanks blank cells.
MaxRowBlanks == 1
\* The grids handed to collides_with_environment on its own hold at most
\* MaxProbeCells occupied cells.
MaxProbeCells == 1
\* get_speed is applied to the levels 1..MaxProbeLevel.
MaxProbeLevel == 35

VARIABLES
    score,        \* Tetris.score
    total_lines,  \* Tetris.total_lines
    level,        \* Tetris.level.number
    piece,        \* Tetris.piece
    last_tetris,  \* Tetris.last_tetris
    status,       \* "Running", or how the process exited
    locks,        \* history: pieces locked so far
    last_op,      \* history: the last operation and whether it took effect
    lock_log,     \* history: what the most recent lock saw and did
    cgrid,        \* a grid handed to clean_rows on its own
    cout,         \* what clean_rows made of cgrid
    probe         \* a function applied on its own: its arguments and result

vars == <<score, total_lines, level, piece, last_tetris, status,
          locks, last_op, lock_log, cgrid, cout, probe>>

----------------------------------------------------------------------------
(* enum Tetrimonos, in declaration order (repr(i32): I = 0 .. BLANK = 7) *)
Tetrimonos == <<"I", "O", "T", "S", "Z", "J", "L", "BLANK">>

\* Tetrimonos::try_from(n), with Piece::new's fallback to BLANK on Err
try_from(n) == IF n >= 0 /\ n <= 7 THEN Tetrimonos[n + 1] ELSE "BLANK"

\* the match arms of Piece::generate_positions: per state, the 4 (row, column)
\* offsets of the blocks
positions_of(t) ==
    CASE t = "I" ->
           << << <<-1, -2>>, <<-1, -1>>, <<-1, 0>>, <<-1, 1>> >>,
              << <<-2, 0>>, <<-1, 0>>, <<0, 0>>, <<1, 0>> >>,
              << <<0, -2>>, <<0, -1>>, <<0, 0>>, <<0, 1>> >>,
              << <<-2, -1>>, <<-1, -1>>, <<0, -1>>, <<1, -1>> >> >>
      [] t = "O" ->
           << << <<-1, -2>>, <<-2, -2>>, <<-1, -1>>, <<-2, -1>> >>,
              << <<-1, -2>>, <<-2, -2>>, <<-1, -1>>, <<-2, -1>> >>,
              << <<-1, -2>>, <<-2, -2>>, <<-1, -1>>, <<-2, -1>> >>,
              << <<-1, -2>>, <<-2, -2>>, <<-1, -1>>, <<-2, -1>> >> >>
      [] t = "T" ->
           << << <<-1, -2>>, <<-1, -1>>, <<-2, -1>>, <<-1, 0>> >>,
              << <<-2, -1>>, <<-1, -1>>, <<0, -1>>, <<-1, 0>> >>,
              << <<-1, -2>>, <<-1, -1>>, <<0, -1>>, <<-1, 0>> >>,
              << <<-1, -2>>, <<-2, -1>>, <<-1, -1>>, <<0, -1>> >> >>
      [] t = "S" ->
           << << <<-1, -2>>, <<-1, -1>>, <<-2, -1>>, <<-2, 0>> >>,
              << <<-2, -1>>, <<-1, -1>>, <<-1, 0>>, <<0, 0>> >>,
              << <<0, -2>>, <<0, -1>>, <<-1, -1>>, <<-1, 0>> >>,
              << <<-2, -2>>, <<-1, -2>>, <<-1, -1>>, <<0, -1>> >> >>
      [] t = "Z" ->
           << << <<-2, -2>>, <<-2, -1>>, <<-1, -1>>, <<-1, 0>> >>,
              << <<0, -1>>, <<-1, -1>>, <<-1, 0>>, <<-2, 0>> >>,
              << <<-1, -2>>, <<-1, -1>>, <<0, -1>>, <<0, 0>> >>,
              << <<0, -2>>, <<-1, -2>>, <<-1, -1>>, <<-2, -1>> >> >>
      [] t = "J" ->
           << << <<-2, -2>>, <<-1, -2>>, <<-1, -1>>, <<-1, 0>> >>,
              << <<0, -1>>, <<-1, -1>>, <<-2, -1>>, <<-2, 0>> >>,
              << <<-1, -2>>, <<-1, -1>>, <<-1, 0>>, <<0, 0>> >>,
              << <<0, -2>>, <<0, -1>>, <<-1, -1>>, <<-2, -1>> >> >>
      [] t = "L" ->
           << << <<-1, -2>>, <<-1, -1>>, <<-1, 0>>, <<-2, 0>> >>,
              << <<-2, -1>>, <<-1, -1>>, <<0, -1>>, <<0, 0>> >>,
              << <<0, -2>>, <<-1, -2>>, <<-1, -1>>, <<-1, 0>> >>,
              << <<-2, -2>>, <<-2, -1>>, <<-1, -1>>, <<0, -1>> >> >>
      [] OTHER ->
           << << <<0, 0>>, <<0, 0>>, <<0, 0>>, <<0, 0>> >>,
              << <<0, 0>>, <<0, 0>>, <<0, 0>>, <<0, 0>> >>,
              << <<0, 0>>, <<0, 0>>, <<0, 0>>, <<0, 0>> >>,
              << <<0, 0>>, <<0, 0>>, <<0, 0>>, <<0, 0>> >> >>

\* Piece::generate_positions, as the table of its results
positions_table == [t \in {Tetrimonos[k] : k \in 1..8} |-> positions_of(t)]

generate_positions(t) == positions_table[t]

\* Piece.positions[state][i], with the code's 0-based indices
positions(p, state, i) == generate_positions(p.tetrimono)[state + 1][i + 1]

\* Rust's `f as usize`: a negative value saturates to 0
as_usize(v) == IF v < 0 THEN 0 ELSE v

----------------------------------------------------------------------------
(* struct Grid *)

\* vec![Tetrimonos::BLANK; GRID_SIZE.1]
blank_row == [j \in 1..GRID_COLS |-> "BLANK"]

\* Grid::new
Grid_new == [i \in 1..GRID_ROWS |-> blank_row]

\* keeps_row as it would be if only the first cell of the row were tested
keeps_row_first(x) == x[1] = "BLANK"

\* the filter of clean_rows: a row is kept when any cell of it is BLANK
keeps_row(x) == \E j \in 1..Len(x) : x[j] = "BLANK"

\* the loop of clean_rows: insert a blank row at index 0, n times
RECURSIVE insert_blank_rows(_, _)
insert_blank_rows(new_grid, n) ==
    IF n <= 0 THEN new_grid
    ELSE insert_blank_rows(<<blank_row>> \o new_grid, n - 1)

\* clean_rows as it would be if the blank rows were pushed at the end of the
\* grid instead of inserted at index 0
clean_rows_bottom(grid) ==
    LET new_grid == SelectSeq(grid, keeps_row)
        num_removed == GRID_ROWS - Len(new_grid)
    IN  [grid |-> new_grid \o [i \in 1..num_removed |-> blank_row],
         num_removed |-> num_removed]

\* clean_rows as it would be if it removed only the first full row it meets
clean_rows_single(grid) ==
    LET full == {i \in 1..GRID_ROWS : ~keeps_row(grid[i])}
        first == CHOOSE i \in full : \A k \in full : i <= k
        new_grid == IF full = {} THEN grid
                    ELSE SubSeq(grid, 1, first - 1)
                             \o SubSeq(grid, first + 1, GRID_ROWS)
        num_removed == GRID_ROWS - Len(new_grid)
    IN  [grid |-> insert_blank_rows(new_grid, num_removed),
         num_removed |-> num_removed]

\* clean_rows as it would be if it reported one removed row however many it
\* removed
clean_rows_miscounted(grid) ==
    LET new_grid == SelectSeq(grid, keeps_row)
        num_removed == GRID_ROWS - Len(new_grid)
    IN  [grid |-> insert_blank_rows(new_grid, num_removed),
         num_removed |-> IF num_removed > 0 THEN 1 ELSE 0]

\* Grid::clean_rows: the new grid and the number of rows removed
clean_rows(grid) ==
    LET new_grid == SelectSeq(grid, keeps_row)
        num_removed == GRID_ROWS - Len(new_grid)
    IN  [grid |-> insert_blank_rows(new_grid, num_removed),
         num_removed |-> num_removed]

----------------------------------------------------------------------------
(* struct Level *)

\* get_speed as it would be if the range of the floor value excluded level 30
get_speed_exclusive(number) ==
    CASE number = 1 -> 750
      [] number = 2 -> 670
      [] number = 3 -> 590
      [] number = 4 -> 520
      [] number = 5 -> 440
      [] number = 6 -> 360
      [] number = 7 -> 280
      [] number = 8 -> 200
      [] number = 9 -> 125
      [] number = 10 -> 90
      [] number \in {11, 12, 13} -> 80
      [] number \in {14, 15, 16} -> 60
      [] number \in {17, 18, 19} -> 45
      [] number \in 20..29 -> 30
      [] OTHER -> 20

\* Level::get_speed: the milliseconds between two drops at level `number`
get_speed(number) ==
    CASE number = 1 -> 750
      [] number = 2 -> 670
      [] number = 3 -> 590
      [] number = 4 -> 520
      [] number = 5 -> 440
      [] number = 6 -> 360
      [] number = 7 -> 280
      [] number = 8 -> 200
      [] number = 9 -> 125
      [] number = 10 -> 90
      [] number \in {11, 12, 13} -> 80
      [] number \in {14, 15, 16} -> 60
      [] number \in {17, 18, 19} -> 45
      [] number \in 20..30 -> 30
      [] OTHER -> 20

----------------------------------------------------------------------------
(* struct Piece *)

\* collides_with_environment as it would be if the floor lay at three times
\* the height of the grid, the rows past the grid counting as free
collides_deep_floor(p, x, y, state) ==
    \E n \in 0..3 :
        LET i == positions(p, state, n)[1] + y
            j == positions(p, state, n)[2] + x
        IN  \/ i < 0
            \/ i >= 3 * GRID_ROWS
            \/ j < 0
            \/ j >= GRID_COLS
            \/ /\ i < GRID_ROWS
               /\ p.environment[as_usize(i) + 1][as_usize(j) + 1] # "BLANK"

\* collides_with_environment as it would be without the test of the cell
collides_bounds_only(p, x, y, state) ==
    \E n \in 0..3 :
        LET i == positions(p, state, n)[1] + y
            j == positions(p, state, n)[2] + x
        IN  \/ i < 0
            \/ i >= GRID_ROWS
            \/ j < 0
            \/ j >= GRID_COLS

\* collides_with_environment as it would be with x and y taken for each other
collides_swapped(p, x, y, state) ==
    \E n \in 0..3 :
        LET i == positions(p, state, n)[1] + x
            j == positions(p, state, n)[2] + y
        IN  \/ i < 0
            \/ i >= GRID_ROWS
            \/ j < 0
            \/ j >= GRID_COLS
            \/ p.environment[as_usize(i) + 1][as_usize(j) + 1] # "BLANK"

\* Piece::collides_with_environment(&self, x, y, state)
collides_with_environment(p, x, y, state) ==
    \E n \in 0..3 :
        LET i == positions(p, state, n)[1] + y
            j == positions(p, state, n)[2] + x
        IN  \/ i < 0
            \/ i >= GRID_ROWS
            \/ j < 0
            \/ j >= GRID_COLS
            \/ p.environment[as_usize(i) + 1][as_usize(j) + 1] # "BLANK"

\* the while loop of calculate_fall_position: the first y that collides
RECURSIVE fall_loop(_, _, _)
fall_loop(p, x, y) ==
    IF ~collides_with_environment(p, x, y, p.state)
    THEN fall_loop(p, x, y + 1)
    ELSE y

\* calculate_fall_position as it would be without the final y -= 1.0
calculate_fall_position_no_backoff(p) ==
    LET y0 == p.position[1]
        x  == p.position[2]
    IN  [p EXCEPT !.shadow_position = <<fall_loop(p, x, y0), x>>]

\* Piece::calculate_fall_position
calculate_fall_position(p) ==
    LET y0 == p.position[1]
        x  == p.position[2]
    IN  [p EXCEPT !.shadow_position = <<fall_loop(p, x, y0) - 1, x>>]

\* Piece::new as it would be if the piece started one column to the left
Piece_new_left(grid, n, state) ==
    calculate_fall_position(
        [tetrimono       |-> try_from(n),
         position        |-> <<2, (GRID_COLS \div 2) - 1>>,
         shadow_position |-> <<0, 0>>,
         state           |-> state,
         environment     |-> grid])

\* Piece::new(grid), with the two random draws as arguments
Piece_new(grid, n, state) ==
    calculate_fall_position(
        [tetrimono       |-> try_from(n),
         position        |-> <<2, GRID_COLS \div 2>>,
         shadow_position |-> <<0, 0>>,
         state           |-> state,
         environment     |-> grid])

\* rotate as it would be without its collision test
rotate_unchecked(p) ==
    calculate_fall_position([p EXCEPT !.state = (p.state + 1) % 4])

\* Piece::rotate
rotate(p) ==
    LET prospective_state == (p.state + 1) % 4
        y == p.position[1]
        x == p.position[2]
    IN  IF ~collides_with_environment(p, x, y, prospective_state)
        THEN calculate_fall_position([p EXCEPT !.state = prospective_state])
        ELSE p

\* shift as it would be if it did not recompute the shadow position
shift_stale(p, dir) ==
    LET y == p.position[1]
        x == p.position[2]
    IN  IF ~collides_with_environment(p, x + dir[2], y + dir[1], p.state)
        THEN [p EXCEPT !.position = <<y + dir[1], x + dir[2]>>]
        ELSE p

\* Piece::shift
shift(p, dir) ==
    LET y == p.position[1]
        x == p.position[2]
    IN  IF ~collides_with_environment(p, x + dir[2], y + dir[1], p.state)
        THEN calculate_fall_position(
                 [p EXCEPT !.position = <<y + dir[1], x + dir[2]>>])
        ELSE p

----------------------------------------------------------------------------
(* struct Tetris *)

\* the cell assimilate_piece writes for block i of the piece
merge_cell(p, i) ==
    <<as_usize(p.shadow_position[1] + positions(p, p.state, i)[1]),
      as_usize(p.shadow_position[2] + positions(p, p.state, i)[2])>>

\* the for loop of assimilate_piece: grid.grid[j][k] = tetrimono, i = from..3
RECURSIVE merge_loop(_, _, _)
merge_loop(grid, p, i) ==
    IF i > 3 THEN grid
    ELSE LET c == merge_cell(p, i)
         IN  merge_loop([grid EXCEPT ![c[1] + 1][c[2] + 1] = p.tetrimono],
                        p, i + 1)

\* assimilate_piece as it would be with the loop running over 1..3
assimilate_piece_three(p, n, state) ==
    LET cleaned == clean_rows(merge_loop(p.environment, p, 1))
    IN  [piece |-> Piece_new(cleaned.grid, n, state),
         rows_removed |-> cleaned.num_removed]

\* Tetris::assimilate_piece, with the new piece's random draws as arguments:
\* the new self.piece and the number of rows removed
assimilate_piece(p, n, state) ==
    LET cleaned == clean_rows(merge_loop(p.environment, p, 0))
    IN  [piece |-> Piece_new(cleaned.grid, n, state),
         rows_removed |-> cleaned.num_removed]

\* score_after as it would be without the back-to-back branch
score_after_no_bonus(sc, lvl, lt, rows_reduced) ==
    IF rows_reduced > 0
    THEN IF rows_reduced = 4 THEN sc + 800 * lvl
         ELSE sc + 100 * lvl * rows_reduced
    ELSE sc

\* update, lines 422-435: the score after a lock that removed rows_reduced
score_after(sc, lvl, lt, rows_reduced) ==
    IF rows_reduced > 0
    THEN IF rows_reduced = 4 /\ lt THEN sc + 1200 * lvl
         ELSE IF rows_reduced = 4 THEN sc + 800 * lvl
         ELSE sc + 100 * lvl * rows_reduced
    ELSE sc

\* last_tetris_after as it would be if every lock assigned the flag
last_tetris_after_iff(lt, rows_reduced) == rows_reduced = 4

\* last_tetris_after as it would be if a clear of 1..3 rows left the flag alone
last_tetris_after_sticky(lt, rows_reduced) ==
    IF rows_reduced = 4 THEN TRUE ELSE lt

\* update, lines 422-435: last_tetris after a lock that removed rows_reduced
last_tetris_after(lt, rows_reduced) ==
    IF rows_reduced > 0
    THEN IF rows_reduced = 4 /\ lt THEN TRUE
         ELSE IF rows_reduced = 4 THEN TRUE
         ELSE FALSE
    ELSE lt

\* level_after as it would be if the division rounded to nearest
level_after_rounded(lines) == ((lines + 5) \div 10) + 1

\* update, line 437: level.number from total_lines
level_after(lines) == (lines \div 10) + 1

\* rand's gen_range(0, 7) and gen_range(0, 4) of Piece::new
KindDraws == 0..6
StateDraws == 0..3

\* Tetris::new, with the first piece's random draws as arguments
Tetris_new(n, st) ==
    /\ score = 0
    /\ total_lines = 0
    /\ level = 1
    /\ piece = Piece_new(Grid_new, n, st)
    /\ last_tetris = FALSE
    /\ status = "Running"
    /\ locks = 0
    /\ last_op = [op |-> "new", ok |-> TRUE]
    /\ lock_log = [removed |-> 0, gain |-> 0, level |-> 1, flag |-> FALSE,
                   lines |-> 0, prev_removed |-> 0, prev_clear |-> 0]

\* EventHandler::update, once the tick interval has elapsed. The draws of the
\* next piece come from `draws`; no piece is locked once `cap` have been.
update(draws, cap) ==
    /\ status = "Running"
    /\ IF piece.position = piece.shadow_position
       THEN LET y == piece.shadow_position[1]
                x == piece.shadow_position[2]
            IN  IF collides_with_environment(piece, x, y, piece.state)
                THEN /\ status' = "GameOver"      \* exit(0): "You lose"
                     /\ last_op' = [op |-> "lose", ok |-> TRUE]
                     /\ UNCHANGED <<score, total_lines, level, piece,
                                    last_tetris, locks, lock_log>>
                ELSE /\ locks < cap
                     /\ \E n \in draws, st \in StateDraws :
                          LET a == assimilate_piece(piece, n, st)
                              rows_reduced == a.rows_removed
                          IN  /\ piece' = a.piece
                              /\ score' = score_after(score, level, last_tetris,
                                                      rows_reduced)
                              /\ last_tetris' =
                                     last_tetris_after(last_tetris, rows_reduced)
                              /\ total_lines' = total_lines + rows_reduced
                              /\ level' = level_after(total_lines + rows_reduced)
                              /\ lock_log' =
                                   [removed |-> rows_reduced,
                                    gain |-> score' - score,
                                    level |-> level,
                                    flag |-> last_tetris,
                                    lines |-> total_lines,
                                    prev_removed |-> lock_log.removed,
                                    prev_clear |->
                                        IF lock_log.removed > 0
                                        THEN lock_log.removed
                                        ELSE lock_log.prev_clear]
                     /\ locks' = locks + 1
                     /\ last_op' = [op |-> "lock", ok |-> TRUE]
                     /\ status' = status
       ELSE /\ piece' = shift(piece, <<1, 0>>)
            /\ last_op' = [op |-> "gravity", ok |-> piece' # piece]
            /\ UNCHANGED <<score, total_lines, level, last_tetris, status,
                           locks, lock_log>>
    /\ UNCHANGED <<cgrid, cout, probe>>

\* key_down_event as it would be if a soft drop step earned a point
key_down_event_drop_point ==
    /\ status = "Running"
    /\ \E keycode \in {"Left", "Right", "Up", "Down", "Escape", "Other"} :
         /\ piece' = CASE keycode = "Left"  -> shift(piece, <<0, -1>>)
                       [] keycode = "Right" -> shift(piece, <<0, 1>>)
                       [] keycode = "Up"    -> rotate(piece)
                       [] keycode = "Down"  -> shift(piece, <<1, 0>>)
                       [] OTHER             -> piece
         /\ status' = IF keycode = "Escape" THEN "Quit" ELSE status
         /\ last_op' = [op |-> keycode, ok |-> piece' # piece]
         /\ score' = IF keycode = "Down" /\ piece' # piece
                     THEN score + 1 ELSE score
    /\ UNCHANGED <<total_lines, level, last_tetris, locks, lock_log,
                   cgrid, cout, probe>>

\* the keys key_down_event tells apart, and one it ignores
KeyCodes == {"Left", "Right", "Up", "Down", "Escape", "Other"}

\* EventHandler::key_down_event
key_down_event ==
    /\ status = "Running"
    /\ \E keycode \in KeyCodes :
         /\ piece' = CASE keycode = "Left"  -> shift(piece, <<0, -1>>)
                       [] keycode = "Right" -> shift(piece, <<0, 1>>)
                       [] keycode = "Up"    -> rotate(piece)
                       [] keycode = "Down"  -> shift(piece, <<1, 0>>)
                       [] OTHER             -> piece
         /\ status' = IF keycode = "Escape" THEN "Quit" ELSE status
         /\ last_op' = [op |-> keycode, ok |-> piece' # piece]
    /\ UNCHANGED <<score, total_lines, level, last_tetris, locks, lock_log,
                   cgrid, cout, probe>>

\* no grid has been handed to clean_rows on its own
NoCleanRun == [done |-> FALSE, grid |-> Grid_new, num_removed |-> 0]

\* no function has been applied on its own
NoProbe == [done |-> FALSE]

Init ==
    /\ \E n \in KindDraws, st \in StateDraws : Tetris_new(n, st)
    /\ cgrid = Grid_new
    /\ cout = NoCleanRun
    /\ probe = NoProbe

Next ==
    \/ update(KindDraws, MaxLocks)
    \/ key_down_event

\* The session with every kind drawn, cut off after MaxLocks pieces.
Spec == Init /\ [][Next]_vars

InitLong ==
    /\ \E n \in 0..MaxDrawLong, st \in StateDraws : Tetris_new(n, st)
    /\ cgrid = Grid_new
    /\ cout = NoCleanRun
    /\ probe = NoProbe

NextLong ==
    \/ update(0..MaxDrawLong, MaxLocksLong)
    \/ key_down_event

\* The session drawing only the first kinds, cut off after MaxLocksLong pieces.
SpecLong == InitLong /\ [][NextLong]_vars

----------------------------------------------------------------------------
(* clean_rows as a function of the grid alone *)

\* a row whose cells at the columns of `blanks` are BLANK; the others hold a
\* kind that differs from column to column
RowSample(blanks) ==
    [j \in 1..GRID_COLS |->
        IF j \in blanks THEN "BLANK" ELSE Tetrimonos[((j - 1) % 7) + 1]]

RowSamples ==
    {RowSample(blanks) :
        blanks \in {b \in SUBSET (1..GRID_COLS) :
                        Cardinality(b) <= MaxRowBlanks \/ b = 1..GRID_COLS}}

InitClean ==
    /\ Tetris_new(0, 0)
    /\ cgrid \in [1..GRID_ROWS -> RowSamples]
    /\ cout = NoCleanRun
    /\ probe = NoProbe

\* grid.clean_rows() on cgrid
CleanStep ==
    /\ ~cout.done
    /\ LET c == clean_rows(cgrid)
       IN  cout' = [done |-> TRUE, grid |-> c.grid,
                    num_removed |-> c.num_removed]
    /\ UNCHANGED <<score, total_lines, level, piece, last_tetris, status,
                   locks, last_op, lock_log, cgrid, probe>>

NextClean == CleanStep

\* clean_rows applied once to each grid of the sample.
SpecClean == InitClean /\ [][NextClean]_vars

----------------------------------------------------------------------------
(* The long session with update occurring again and again: the event loop
   calls update on every frame, whatever the player does *)

SpecLongFair ==
    InitLong /\ [][NextLong]_vars
             /\ WF_vars(update(0..MaxDrawLong, MaxLocksLong))

----------------------------------------------------------------------------
(* A session without key events: update is the only event, and it keeps
   occurring *)

\* the first piece is of any kind; the pieces after it are drawn as in NextLong
NextTick == update(0..MaxDrawLong, MaxLocks)

SpecTick == Init /\ [][NextTick]_vars /\ WF_vars(NextTick)

----------------------------------------------------------------------------
(* collides_with_environment as a function of the grid, the kind, the
   candidate anchor and the rotation state *)

\* the cells of the grid, as (row, column) with the code's 0-based indices
GridCells == (0..(GRID_ROWS - 1)) \X (0..(GRID_COLS - 1))

\* the grid whose cells in `occupied` hold kind t and whose others are BLANK
ProbeGrid(occupied, t) ==
    [i \in 1..GRID_ROWS |->
        [j \in 1..GRID_COLS |->
            IF <<i - 1, j - 1>> \in occupied THEN t ELSE "BLANK"]]

\* the empty grid and the grids with 1..MaxProbeCells occupied cells
ProbeGrids ==
    {Grid_new} \union
    {ProbeGrid({cells[k] : k \in 1..MaxProbeCells}, "Z") :
        cells \in [1..MaxProbeCells -> GridCells]}

\* candidate anchors: every cell of the grid and two cells beyond each edge
ProbeRows == (0 - 2)..(GRID_ROWS + 1)
ProbeCols == (0 - 2)..(GRID_COLS + 1)

InitCollide ==
    /\ \E n \in KindDraws, g \in ProbeGrids :
          /\ Tetris_new(n, 0)
          /\ cgrid = g
    /\ cout = NoCleanRun
    /\ probe = NoProbe

\* a piece of the drawn kind over cgrid: collides_with_environment(x, y, state)
CollideStep ==
    /\ ~probe.done
    /\ \E y \in ProbeRows, x \in ProbeCols, state \in StateDraws :
          probe' = [done |-> TRUE, x |-> x, y |-> y, state |-> state,
                    result |-> collides_with_environment(
                                   [piece EXCEPT !.environment = cgrid],
                                   x, y, state)]
    /\ UNCHANGED <<score, total_lines, level, piece, last_tetris, status,
                   locks, last_op, lock_log, cgrid, cout>>

NextCollide == CollideStep

\* collides_with_environment applied once to each sampled grid, kind, anchor
\* and rotation state.
SpecCollide == InitCollide /\ [][NextCollide]_vars

----------------------------------------------------------------------------
(* get_speed as a function of the level *)

InitSpeed ==
    /\ Tetris_new(0, 0)
    /\ cgrid = Grid_new
    /\ cout = NoCleanRun
    /\ \E a \in 1..MaxProbeLevel, b \in 1..MaxProbeLevel :
          /\ a <= b
          /\ probe = [done |-> FALSE, a |-> a, b |-> b]

\* Level { number }.get_speed() at the two levels
SpeedStep ==
    /\ ~probe.done
    /\ probe' = [done |-> TRUE, a |-> probe.a, b |-> probe.b,
                 speed_a |-> get_speed(probe.a),
                 speed_b |-> get_speed(probe.b)]
    /\ UNCHANGED <<score, total_lines, level, piece, last_tetris, status,
                   locks, last_op, lock_log, cgrid, cout>>

NextSpeed == SpeedStep

\* get_speed applied once to each pair of levels a <= b.
SpecSpeed == InitSpeed /\ [][NextSpeed]_vars

----------------------------------------------------------------------------
(* Properties *)

Playable == {"I", "O", "T", "S", "Z", "J", "L"}
SpawnPosition == <<2, GRID_COLS \div 2>>

\* the last step spawned the piece, and nothing has touched it since
FreshlySpawned == last_op.op \in {"new", "lock"}

\* the piece collides with the board at the spawn position
SpawnCollides ==
    collides_with_environment(piece, SpawnPosition[2], SpawnPosition[1],
                              piece.state)

\* C1: when a freshly spawned piece overlaps occupied cells at its spawn
\* position, the very next tick update ends the session in GameOver and
\* leaves the board as it was.
C1_BlockedSpawnEndsGame ==
    [][(/\ FreshlySpawned
        /\ SpawnCollides
        /\ last_op'.op \in {"gravity", "lock", "lose"})
       => (/\ status' = "GameOver"
           /\ piece'.environment = piece.environment)]_vars

\* what the claim's table gives for a lock that removed `removed` rows at
\* level `lvl` with the back-to-back flag `flag`
TableGain(removed, lvl, flag) ==
    CASE removed = 4 /\ flag     -> 1200 * lvl
      [] removed = 4 /\ ~flag    -> 800 * lvl
      [] removed \in {1, 2, 3}   -> 100 * lvl * removed
      [] removed = 0             -> 0

C5_LevelFromLines ==
    /\ level = (total_lines \div 10) + 1
    /\ score >= 0
    /\ total_lines >= 0
    /\ level >= 1
    /\ total_lines \in 0..9 => level = 1
    /\ total_lines = 10 => level = 2
    /\ locks > 0 => total_lines = lock_log.lines + lock_log.removed

\* a lock has brought total_lines from below 10 to 10, and the level to 2
C5_Witness ==
    /\ lock_log.lines < 10
    /\ total_lines = 10
    /\ level = 2

\* the rows of cgrid in which every cell is non-BLANK
FullRows == {i \in 1..GRID_ROWS : \A j \in 1..GRID_COLS : cgrid[i][j] # "BLANK"}

\* C6: clean_rows returns the number of full rows; the result has the same
\* height and width, that many all-BLANK rows on top, and below them the
\* rows that were not full, unchanged and in their order: each moves down by
\* the number of full rows that were below it.
C6_CleanRows ==
    cout.done =>
        /\ cout.num_removed = Cardinality(FullRows)
        /\ Len(cout.grid) = GRID_ROWS
        /\ \A i \in 1..GRID_ROWS : Len(cout.grid[i]) = GRID_COLS
        /\ \A i \in 1..Cardinality(FullRows) :
               \A j \in 1..GRID_COLS : cout.grid[i][j] = "BLANK"
        /\ \A i \in (1..GRID_ROWS) \ FullRows :
               cout.grid[i + Cardinality({k \in FullRows : k > i})] = cgrid[i]

\* two full rows that are not adjacent, with rows that are neither full nor
\* blank above and between them, were removed in one pass
C6_Witness ==
    /\ cout.done
    /\ FullRows = {2, 4}
    /\ cout.num_removed = 2
    /\ cgrid[1] # blank_row
    /\ cgrid[3] # blank_row
    /\ cgrid[1] # cgrid[3]

\* C7: on a grid with no full row clean_rows returns 0 and leaves every cell
\* as it was.
C7_NoFullRow ==
    (cout.done /\ FullRows = {}) =>
        /\ cout.num_removed = 0
        /\ cout.grid = cgrid

\* clean_rows ran on a grid with no full row whose rows are not all blank
C7_Witness ==
    /\ cout.done
    /\ FullRows = {}
    /\ \A i \in 1..GRID_ROWS : cgrid[i] # blank_row
    /\ cout.grid = cgrid

\* the move a key proposes collides
ProposalCollides(p, op) ==
    LET y == p.position[1]
        x == p.position[2]
    IN  CASE op = "Left"  -> collides_with_environment(p, x - 1, y, p.state)
          [] op = "Right" -> collides_with_environment(p, x + 1, y, p.state)
          [] op \in {"Down", "gravity"} ->
                 collides_with_environment(p, x, y + 1, p.state)
          [] op = "Up" ->
                 collides_with_environment(p, x, y, (p.state + 1) % 4)

\* C8: a shift (by a key or by gravity) or a rotation whose proposed move
\* collides changes nothing: kind, rotation state, anchor, shadow position
\* and board are as before, and so is the rest of the session; the same
\* move still collides afterwards, so repeating it changes nothing either.
C8_RejectedMoveIsNoOp ==
    [][\A op \in {"Left", "Right", "Down", "Up", "gravity"} :
          (last_op'.op = op /\ ProposalCollides(piece, op))
          => (/\ piece' = piece
              /\ UNCHANGED <<score, total_lines, level, last_tetris, status,
                             locks>>
              /\ ProposalCollides(piece', op))]_vars

\* a rotation and a shift have been rejected
C8_Witness ==
    /\ last_op.op \in {"Up", "Left"}
    /\ ~last_op.ok
    /\ ProposalCollides(piece, last_op.op)
    /\ locks > 0

\* C9: after a shift or a rotation that took effect, the shadow position is
\* in the anchor's column and not above the anchor's row.
C9_ShadowBelowAnchor ==
    (last_op.op \in {"Left", "Right", "Down", "Up", "gravity"} /\ last_op.ok)
    => /\ piece.shadow_position[2] = piece.position[2]
       /\ piece.shadow_position[1] >= piece.position[1]

\* a shift to the left took effect on a piece that can still fall
C9_Witness ==
    /\ last_op = [op |-> "Left", ok |-> TRUE]
    /\ piece.position[2] < SpawnPosition[2]
    /\ piece.shadow_position[1] > piece.position[1]

\* C10, as stated: every spawned piece has one of the 7 kinds, rotation
\* state 0 and its anchor at row 2, column width / 2.
C10_SpawnInStateZero ==
    FreshlySpawned =>
        /\ piece.tetrimono \in Playable
        /\ piece.state = 0
        /\ piece.position = SpawnPosition

\* C10, amended: every spawned piece has one of the 7 kinds, any of the 4
\* rotation states and its anchor at row 2, column width / 2.
C10_Spawn ==
    FreshlySpawned =>
        /\ piece.tetrimono \in Playable
        /\ piece.state \in 0..3
        /\ piece.position = SpawnPosition

\* a piece spawned after a lock in a rotation state other than 0
C10_Witness ==
    /\ last_op.op = "lock"
    /\ piece.state = 3
    /\ piece.tetrimono = "L"

\* the 4 absolute cells of a piece of kind t in rotation state `state` with
\* its anchor at row y, column x
AbsoluteCells(t, y, x, state) ==
    {<<y + generate_positions(t)[state + 1][n][1],
       x + generate_positions(t)[state + 1][n][2]>> : n \in 1..4}

\* C11: the collision test is true exactly when one of the 4 absolute cells
\* (anchor plus the rotation state's offsets) is outside the grid or on a
\* non-BLANK cell of the board, and false otherwise.
C11_Collides ==
    probe.done =>
        (probe.result <=>
            \E c \in AbsoluteCells(piece.tetrimono, probe.y, probe.x,
                                   probe.state) :
                \/ c \notin GridCells
                \/ cgrid[c[1] + 1][c[2] + 1] # "BLANK")

\* a piece wholly inside the grid collides because of an occupied cell
C11_Witness ==
    /\ probe.done
    /\ probe.result
    /\ AbsoluteCells(piece.tetrimono, probe.y, probe.x, probe.state)
           \subseteq GridCells
    /\ piece.tetrimono = "S"
    /\ probe.state = 1

\* the levels that share one tick interval from level 11 on
SpeedBands == {11..13, 14..16, 17..19, 20..30, 31..MaxProbeLevel}

\* C14: the tick interval never grows with the level: for levels a <= b,
\* get_speed(a) >= get_speed(b); it falls strictly from each of the levels
\* 1..10 to the next, is constant inside each band 11-13, 14-16, 17-19, is one
\* value on 20..30 and one lower value from 31 on.
C14_SpeedMonotone ==
    probe.done =>
        /\ probe.speed_a >= probe.speed_b
        /\ (probe.a < probe.b /\ probe.a <= 10) => probe.speed_a > probe.speed_b
        /\ \A band \in SpeedBands :
              (probe.a \in band /\ probe.b \in band)
                  => probe.speed_a = probe.speed_b
        /\ (probe.a \in 20..30 /\ probe.b >= 31) => probe.speed_a > probe.speed_b

\* the last level of the 20..30 floor against the first level below it
C14_Witness ==
    /\ probe.done
    /\ probe.a = 30
    /\ probe.b = 31
    /\ probe.speed_a = 30
    /\ probe.speed_b = 20

\* the non-BLANK cells of a grid, as (row, column) with 0-based indices
Occupied(grid) == {c \in GridCells : grid[c[1] + 1][c[2] + 1] # "BLANK"}

\* the columns of a piece of kind t and rotation state `state` at the spawn
\* position
SpawnColumns(t, state) ==
    {c[2] : c \in AbsoluteCells(t, SpawnPosition[1], SpawnPosition[2], state)}

\* the first piece, dropped by ticks alone, is locked by this step
FirstLock == locks = 0 /\ locks' = 1

\* what C12 says of the board, the score and the lines after that lock
DroppedInPlace ==
    /\ Cardinality(Occupied(piece'.environment)) = 4
    /\ \A c \in Occupied(piece'.environment) :
           piece'.environment[c[1] + 1][c[2] + 1] = piece.tetrimono
    /\ {c[2] : c \in Occupied(piece'.environment)}
           = SpawnColumns(piece.tetrimono, piece.state)
    /\ \E c \in Occupied(piece'.environment) : c[1] = GRID_ROWS - 1
    /\ score' = 0
    /\ total_lines' = 0

Standing == <<piece.environment, score, total_lines, level, last_tetris>>

\* C13: the board, the score, the total lines, the level and the back-to-back
\* flag change only in a tick that locks a piece: every key event (left,
\* right, down, rotate), accepted or rejected, and every tick that only
\* applies gravity leave all of them as they were.
C13_OnlyLocksChangeStanding ==
    [][last_op'.op # "lock" => Standing' = Standing]_vars

\* an accepted rotation over a board that holds a locked piece
C13_Witness ==
    /\ last_op = [op |-> "Up", ok |-> TRUE]
    /\ locks > 0
    /\ piece.environment # Grid_new
    /\ score = 0

\* the last step computed the shadow position: a spawn, or a shift or rotate
\* that was accepted
JustComputed ==
    \/ FreshlySpawned
    \/ last_op.op \in {"Left", "Right", "Up", "Down", "gravity"} /\ last_op.ok

\* the piece collides with the board with its anchor at row y of its column
CollidesAtRow(y) ==
    collides_with_environment(piece, piece.position[2], y, piece.state)

\* the shadow position is the lowest anchor the piece reaches from its anchor
\* by moving straight down through collision-free rows
LowestFreeBelow ==
    /\ piece.shadow_position[2] = piece.position[2]
    /\ piece.shadow_position[1] >= piece.position[1]
    /\ \A y \in piece.position[1]..piece.shadow_position[1] : ~CollidesAtRow(y)
    /\ CollidesAtRow(piece.shadow_position[1] + 1)

\* C15 as stated: every time the shadow position is computed (at spawn and
\* after each accepted shift or rotate), the piece placed there is
\* collision-free, every anchor row from the anchor down to it is
\* collision-free, and the anchor one row below it collides.
C15_ProjectionIsLowestFree == JustComputed => LowestFreeBelow

\* C15: every time the shadow position is computed from a collision-free
\* anchor, it is the lowest collision-free anchor straight below; computed
\* from a colliding anchor, which only a spawn onto occupied cells produces,
\* it is the row directly above the anchor.
C15_Projection ==
    JustComputed =>
        IF ~CollidesAtRow(piece.position[1])
        THEN LowestFreeBelow
        ELSE /\ FreshlySpawned
             /\ piece.shadow_position
                    = <<piece.position[1] - 1, piece.position[2]>>

\* after an accepted sideways shift the piece would come to rest on a locked
\* cell, above the floor
C15_Witness ==
    /\ last_op.op \in {"Left", "Right"}
    /\ last_op.ok
    /\ locks > 0
    /\ LowestFreeBelow
    /\ \E c \in AbsoluteCells(piece.tetrimono, piece.shadow_position[1] + 1,
                              piece.position[2], piece.state) :
           c \in Occupied(piece.environment)

\* this step merges the piece into the board
LockStep == locks' = locks + 1

\* the cells of the piece at its shadow position
ShadowCells ==
    AbsoluteCells(piece.tetrimono, piece.shadow_position[1],
                  piece.shadow_position[2], piece.state)

\* C16: in every lock step, under any interleaving of ticks and key events,
\* the 4 cells written into the board are inside the grid, were BLANK just
\* before the merge, and are 4 distinct cells.
C16_MergeWritesFreeCells ==
    [][LockStep =>
          /\ {merge_cell(piece, i) : i \in 0..3} = ShadowCells
          /\ ShadowCells \subseteq GridCells
          /\ \A c \in ShadowCells :
                 piece.environment[c[1] + 1][c[2] + 1] = "BLANK"
          /\ Cardinality(ShadowCells) = 4
          /\ Occupied(merge_loop(piece.environment, piece, 0))
                 = Occupied(piece.environment) \union ShadowCells]_vars

\* a piece has been merged into a board that already held two locked pieces,
\* and no row was removed
C16_Witness ==
    /\ last_op.op = "lock"
    /\ locks = 3
    /\ total_lines = 0
    /\ Cardinality(Occupied(piece.environment)) = 12

\* the number of times the loop of calculate_fall_position adds 1 to the
\* candidate row when it starts from the piece's anchor
FallSteps ==
    fall_loop(piece, piece.position[2], piece.position[1]) - piece.position[1]

\* C17: wherever the search for the shadow position is run (spawn, accepted
\* shift, accepted rotate) it ends after at most GRID_ROWS increments of the
\* candidate row, on a row where the piece collides; the shadow position is
\* the row before it.
C17_FallSearchBounded ==
    JustComputed =>
        /\ FallSteps \in 0..GRID_ROWS
        /\ CollidesAtRow(piece.position[1] + FallSteps)
        /\ piece.shadow_position[1] = piece.position[1] + FallSteps - 1

\* the search ran after an accepted rotation over a board that holds a
\* locked piece, and took at least one increment
C17_Witness ==
    /\ last_op = [op |-> "Up", ok |-> TRUE]
    /\ locks > 0
    /\ Occupied(piece.environment) # {}
    /\ FallSteps > 0

\* C18: if ticks keep occurring then, whatever keys are pressed in between,
\* a piece in play is eventually locked (and replaced by a new piece) or the
\* session ends; it never stays forever with the same piece.  A piece is
\* taken to be in play once an event has followed its spawn, and only pieces
\* whose lock the run is long enough to hold are looked at.
C18_EveryPieceLocks ==
    [](((/\ status = "Running"
         /\ locks < MaxLocksLong
         /\ last_op.op # "lock")
        => <>(last_op.op = "lock" \/ status # "Running")))

\* C19: between updates no row of the board is full (every row has a BLANK
\* cell), and every lock removed between 0 and 4 rows.
C19_BoardHasNoFullRow ==
    /\ \A i \in 1..GRID_ROWS : \E j \in 1..GRID_COLS :
           piece.environment[i][j] = "BLANK"
    /\ lock_log.removed \in 0..4

\* a lock has just filled and removed four rows at once
C19_Witness ==
    /\ last_op.op = "lock"
    /\ lock_log.removed = 4
    /\ total_lines = lock_log.lines + 4
    /\ \A i \in 1..GRID_ROWS : keeps_row(piece.environment[i])

\* C20: between updates the number of non-BLANK cells of the board is
\* 4 * (pieces locked so far) - GRID_COLS * total_lines, so that each lock
\* changes it by 4 - GRID_COLS * (rows removed).
C20_CellConservation ==
    Cardinality(Occupied(piece.environment))
        = 4 * locks - GRID_COLS * total_lines

\* rows have been removed and a later lock has put cells on the board again
C20_Witness ==
    /\ last_op.op = "lock"
    /\ total_lines > 0
    /\ Occupied(piece.environment) # {}
    /\ Cardinality(Occupied(piece.environment))
           = 4 * locks - GRID_COLS * total_lines

=============================================================================
